---- MODULE Spec2Model ----
(***************************************************************************)
(* Model of cloudinstall.placement.PlacementController: the assignment    *)
(* store (instance_id -> list of charm classes), the unplaced set, the     *)
(* default-placement generator gen_defaults and autoplace.                 *)
(*                                                                         *)
(* Machines are represented by their instance_id, charm classes by their   *)
(* charm name.  The store of the source keeps ONE list per machine; it     *)
(* has no placement stratum.  A Python dict's iteration order is           *)
(* abstracted to the fixed order MachineOrder (no operation of the         *)
(* controller depends on it beyond the order of a returned list).          *)
(***************************************************************************)
EXTENDS Integers, Sequences, FiniteSets, TLC

VARIABLES
    pool,               \* maas_state.machines(): the live machines, in order
    assignments,        \* self.assignments: instance_id -> list of charms
    unplaced_services,  \* self.unplaced_services
    last                \* the last call: operation, arguments, pre-state, result

vars == <<pool, assignments, unplaced_services, last>>

-----------------------------------------------------------------------------
(* Bounds *)

\* longest per-machine list that assign() is still applied to
MaxLen == 2

-----------------------------------------------------------------------------
(* Machines and the charm catalog *)

None == "None"

MachineOrder == <<"m1", "m2", "m3">>

MachineIds == {MachineOrder[i] : i \in 1..Len(MachineOrder)}

\* the machines the inventory (maas_state) reports; m3 is only ever passed to
\* gen_defaults explicitly
LiveIds == {"m1", "m2"}

\* machine.constraints: the resource profile of a machine
machine_constraints(mid) ==
    CASE mid = "m1" -> [arch |-> "arm64", cpu_cores |-> 2]
      [] mid = "m2" -> [arch |-> "amd64", cpu_cores |-> 4]
      [] OTHER      -> [arch |-> "amd64", cpu_cores |-> 1]

\* self.charm_classes(): the enabled charm classes, in load order
charm_classes == <<"keystone", "mysql", "nova-compute", "quantum-gateway">>

Range(s) == {s[i] : i \in 1..Len(s)}

Catalog == Range(charm_classes)

\* load_charms(): every charm class a caller can name; charm_classes()
\* leaves out swift-storage while enable_swift is off
loaded_charm_classes == Catalog \cup {"swift-storage"}

allow_multi_units(cc) == cc = "nova-compute"

isolate(cc) == cc \in {"nova-compute", "quantum-gateway"}

NoConstraints == [k \in {} |-> 0]

charm_constraints(cc) ==
    CASE cc = "nova-compute"    -> [cpu_cores |-> 2]
      [] cc = "quantum-gateway" -> [arch |-> "arm64"]
      [] OTHER                  -> NoConstraints

\* cloudinstall.machine.satisfies(machine, constraints)[0]
satisfies(mid, constraints) ==
    \A k \in DOMAIN constraints :
        IF k = "arch"
        THEN \/ constraints[k] = "*"
             \/ machine_constraints(mid)[k] = "*"
             \/ machine_constraints(mid)[k] = constraints[k]
        ELSE machine_constraints(mid)[k] >= constraints[k]

-----------------------------------------------------------------------------
(* Lists and the defaultdict *)

EmptyMap == [k \in {} |-> <<>>]

\* defaultdict(list).__getitem__: the value read
Get(a, mid) == IF mid \in DOMAIN a THEN a[mid] ELSE <<>>

\* defaultdict(list).__getitem__: the store after the read
Touch(a, mid) == IF mid \in DOMAIN a THEN a ELSE a @@ (mid :> <<>>)

\* dict.__setitem__
Put(a, mid, l) == [k \in DOMAIN a \cup {mid} |-> IF k = mid THEN l ELSE a[k]]

\* mutant: the entry is emptied but its key is kept
DelKeepsKey(a, mid) == [k \in DOMAIN a |-> IF k = mid THEN <<>> ELSE a[k]]

\* dict.__delitem__
Del(a, mid) == [k \in DOMAIN a \ {mid} |-> a[k]]

IndexOf(l, x) ==
    IF x \in Range(l) THEN CHOOSE i \in 1..Len(l) :
                               l[i] = x /\ \A j \in 1..(i - 1) : l[j] # x
    ELSE 0

RemoveAt(l, i) == [j \in 1..(Len(l) - 1) |-> IF j < i THEN l[j] ELSE l[j + 1]]

\* mutant: every occurrence is dropped
ListRemoveAll(l, x) == SelectSeq(l, LAMBDA y : y # x)

\* list.remove(x): drops the first occurrence (x is in l)
ListRemove(l, x) == RemoveAt(l, IndexOf(l, x))

-----------------------------------------------------------------------------
(* PlacementController: queries *)

\* self.machines()
machines == pool

\* next((m for m in all_machines if m.instance_id == m_id), None)
machine_by_id(all_machines, m_id) ==
    IF m_id \in Range(all_machines) THEN m_id ELSE None

\* PlacementController.machines_for_charm, over the store a
machines_for_charm(a, cc) ==
    LET holders == SelectSeq(MachineOrder,
                       LAMBDA m_id : m_id \in DOMAIN a /\ cc \in Range(a[m_id]))
    IN  [i \in 1..Len(holders) |-> machine_by_id(machines, holders[i])]

\* mutant: the unplaced set is reset to the whole catalog
reset_unplaced_all(a) == Catalog

\* mutant: a charm on exactly one machine still counts as unplaced
reset_unplaced_one(a) ==
    {cc \in Catalog : Len(machines_for_charm(a, cc)) <= 1}

\* PlacementController.reset_unplaced: the new value of unplaced_services
reset_unplaced(a) ==
    {cc \in Catalog : Len(machines_for_charm(a, cc)) = 0}

\* PlacementController.service_is_core
uncore_services == {"swift-storage", "swift-proxy", "nova-compute"}

\* mutant: nova-compute is core whenever it has no placement
service_is_core_unplaced(cc) ==
    IF cc = "nova-compute"
    THEN \A k \in DOMAIN assignments : cc \notin Range(assignments[k])
    ELSE cc \notin uncore_services

service_is_core(cc) == cc \notin uncore_services

\* mutant: any unplaced charm, core or not, blocks deployment
can_deploy_strict == unplaced_services = {}

\* PlacementController.can_deploy
can_deploy ==
    {cc \in unplaced_services : service_is_core(cc)} = {}

\* are_assignments_equivalent(other): only the keys of self.assignments are
\* visited; each must be a key of other with the same set of charm classes
are_assignments_equivalent(a, other) ==
    \A mid \in DOMAIN a :
        /\ mid \in DOMAIN other
        /\ Range(a[mid]) = Range(other[mid])

-----------------------------------------------------------------------------
(* PlacementController.gen_defaults *)

\* the loop of satisfying_machine: index of the first machine that satisfies
\* the constraints, 0 when there is none
satisfying_index(constraints, maas_machines) ==
    IF \E i \in 1..Len(maas_machines) : satisfies(maas_machines[i], constraints)
    THEN CHOOSE i \in 1..Len(maas_machines) :
             /\ satisfies(maas_machines[i], constraints)
             /\ \A j \in 1..(i - 1) : ~satisfies(maas_machines[j], constraints)
    ELSE 0

\* mutant: the machine found is not removed from the list
satisfying_machine_keeps(constraints, maas_machines) ==
    LET i == satisfying_index(constraints, maas_machines)
    IN  IF i = 0
        THEN [machine |-> None, maas_machines |-> maas_machines]
        ELSE [machine |-> maas_machines[i], maas_machines |-> maas_machines]

\* mutant: when no machine satisfies, the first machine is consumed anyway
satisfying_machine_eats(constraints, maas_machines) ==
    LET i == satisfying_index(constraints, maas_machines)
    IN  IF i = 0
        THEN [machine |-> None,
              maas_machines |-> IF maas_machines = <<>> THEN maas_machines
                                ELSE Tail(maas_machines)]
        ELSE [machine |-> maas_machines[i],
              maas_machines |-> RemoveAt(maas_machines, i)]

\* satisfying_machine(constraints): the machine returned (None when there is
\* none) and the list maas_machines after the call
satisfying_machine(constraints, maas_machines) ==
    LET i == satisfying_index(constraints, maas_machines)
    IN  IF i = 0
        THEN [machine |-> None, maas_machines |-> maas_machines]
        ELSE [machine |-> maas_machines[i],
              maas_machines |-> RemoveAt(maas_machines, i)]

\* assignments[m.instance_id].append(charm_class) on a defaultdict(list)
Append1(a, mid, cc) == Put(a, mid, Append(Get(a, mid), cc))

\* for charm_class in isolated_charms: ...
RECURSIVE place_isolated(_, _, _)
place_isolated(isolated_charms, maas_machines, acc) ==
    IF isolated_charms = <<>>
    THEN [assignments |-> acc, maas_machines |-> maas_machines]
    ELSE LET charm_class == Head(isolated_charms)
             r == satisfying_machine(charm_constraints(charm_class),
                                     maas_machines)
         IN  IF r.machine # None
             THEN place_isolated(Tail(isolated_charms), r.maas_machines,
                                 Append1(acc, r.machine, charm_class))
             ELSE place_isolated(Tail(isolated_charms), r.maas_machines, acc)

\* mutant: only the first controller charm is placed
place_controller_first(controller_charms, controller_machine, acc) ==
    IF controller_charms = <<>>
    THEN acc
    ELSE Put(acc, controller_machine, <<Head(controller_charms)>>)

\* for charm_class in controller_charms: ...
RECURSIVE place_controller(_, _, _)
place_controller(controller_charms, controller_machine, acc) ==
    IF controller_charms = <<>>
    THEN acc
    ELSE place_controller(Tail(controller_charms), controller_machine,
                          Append1(acc, controller_machine,
                                  Head(controller_charms)))

\* gen_defaults(charm_classes, maas_machines): the mapping returned and the
\* list object maas_machines as the call leaves it
gen_defaults(charms, maas_machines) ==
    LET isolated_charms   == SelectSeq(charms, isolate)
        controller_charms == SelectSeq(charms, LAMBDA cc : ~isolate(cc))
        r1 == place_isolated(isolated_charms, maas_machines, EmptyMap)
        r2 == satisfying_machine(NoConstraints, r1.maas_machines)
    IN  [assignments |->
             IF r2.machine # None
             THEN place_controller(controller_charms, r2.machine,
                                   r1.assignments)
             ELSE r1.assignments,
         maas_machines |-> r2.maas_machines]

-----------------------------------------------------------------------------
(* The record of the last call *)

NoCall ==
    [op |-> "init", m |-> None, cc |-> None,
     charms |-> <<>>,          \* gen_defaults: the charm classes passed
     supplied |-> <<>>,        \* gen_defaults: the machine list passed
     after |-> <<>>,           \* gen_defaults: that list object after the call
     pre |-> EmptyMap,         \* self.assignments before the call
     preUnplaced |-> {},       \* self.unplaced_services before the call
     ok |-> TRUE,              \* FALSE when the call raised
     ret |-> EmptyMap,         \* gen_defaults: the mapping returned
     success |-> TRUE,         \* autoplace: first component of the result
     msg |-> "",               \* autoplace: second component of the result
     compute_assigned |-> FALSE,  \* nova-compute was in the store at some time
     equiv |-> FALSE,          \* update: what are_assignments_equivalent returned
     doc |-> EmptyMap,         \* save, load: the document written or read
     used |-> EmptyMap]        \* load: the constraints of each machine used

\* the record of a call; used once assignments' is determined
Call(op, m, cc, ok) ==
    [NoCall EXCEPT !.op = op, !.m = m, !.cc = cc, !.ok = ok,
                   !.pre = assignments, !.preUnplaced = unplaced_services,
                   !.compute_assigned =
                       \/ last.compute_assigned
                       \/ \E k \in DOMAIN assignments' :
                              "nova-compute" \in Range(assignments'[k])]

\* sequences without repetition over the set S, of length at most n
Arrangements(S, n) ==
    {s \in UNION {[1..k -> S] : k \in 0..n} :
        \A i, j \in 1..Len(s) : i # j => s[i] # s[j]}

-----------------------------------------------------------------------------
(* PlacementController: operations *)

Init ==
    /\ pool \in Arrangements(LiveIds, Cardinality(LiveIds))
    /\ assignments = EmptyMap
    /\ unplaced_services = {}
    /\ last = NoCall

\* mutant: prior occurrences are not removed
remove_prior_none(a, charm_class) == a

\* assign, lines 107-110: a charm that disallows multiple units is removed
\* (list.remove: first occurrence) from every list that contains it
remove_prior(a, charm_class) ==
    IF ~allow_multi_units(charm_class)
    THEN [k \in DOMAIN a |-> IF charm_class \in Range(a[k])
                             THEN ListRemove(a[k], charm_class)
                             ELSE a[k]]
    ELSE a

assign(machine, charm_class) ==
    /\ Len(Get(assignments, machine)) < MaxLen
    /\ assignments' = Append1(remove_prior(assignments, charm_class),
                              machine, charm_class)
    /\ unplaced_services' = reset_unplaced(assignments')
    /\ last' = Call("assign", machine, charm_class, TRUE)
    /\ UNCHANGED pool

\* remove_assignment: list.remove raises ValueError when cc is not in the
\* list, after the defaultdict read has created the entry
remove_assignment(m, cc) ==
    /\ IF cc \in Range(Get(assignments, m))
       THEN /\ assignments' = Put(assignments, m,
                                  ListRemove(Get(assignments, m), cc))
            /\ unplaced_services' = reset_unplaced(assignments')
            /\ last' = Call("remove_assignment", m, cc, TRUE)
       ELSE /\ assignments' = Touch(assignments, m)
            /\ UNCHANGED unplaced_services
            /\ last' = Call("remove_assignment", m, cc, FALSE)
    /\ UNCHANGED pool

\* mutant: every list is emptied but the machine keys are kept
clear_all_keeps_keys ==
    /\ assignments' = [k \in DOMAIN assignments |-> <<>>]
    /\ unplaced_services' = reset_unplaced(assignments')
    /\ last' = Call("clear_all_assignments", None, None, TRUE)
    /\ UNCHANGED pool

clear_all_assignments ==
    /\ assignments' = EmptyMap
    /\ unplaced_services' = reset_unplaced(assignments')
    /\ last' = Call("clear_all_assignments", None, None, TRUE)
    /\ UNCHANGED pool

\* clear_assignments: del raises KeyError when the machine has no entry
clear_assignments(m) ==
    /\ IF m \in DOMAIN assignments
       THEN /\ assignments' = Del(assignments, m)
            /\ unplaced_services' = reset_unplaced(assignments')
            /\ last' = Call("clear_assignments", m, None, TRUE)
       ELSE /\ UNCHANGED <<assignments, unplaced_services>>
            /\ last' = Call("clear_assignments", m, None, FALSE)
    /\ UNCHANGED pool

\* assignments_for_machine: the defaultdict read creates the entry
assignments_for_machine(m) ==
    /\ assignments' = Touch(assignments, m)
    /\ last' = Call("assignments_for_machine", m, None, TRUE)
    /\ UNCHANGED <<pool, unplaced_services>>

\* set_all_assignments(assignments): the new store and unplaced set
set_all_assignments(new_assignments) ==
    /\ assignments' = new_assignments
    /\ unplaced_services' = reset_unplaced(assignments')

\* ServicesColumn.do_reset_to_defaults:
\* set_all_assignments(gen_defaults()), both arguments defaulted
\* (charm_classes() and a fresh maas_state.machines() list)
do_reset_to_defaults ==
    LET defs == gen_defaults(charm_classes, machines)
    IN  /\ set_all_assignments(defs.assignments)
        /\ last' = [Call("do_reset_to_defaults", None, None, TRUE) EXCEPT
                        !.charms = charm_classes,
                        !.supplied = machines,
                        !.after = defs.maas_machines,
                        !.ret = defs.assignments]
        /\ UNCHANGED pool

\* ServicesColumn.update: defs = gen_defaults(), then
\* are_assignments_equivalent(defs) chooses the state of the reset button
update ==
    LET defs == gen_defaults(charm_classes, machines)
    IN  /\ UNCHANGED <<pool, assignments, unplaced_services>>
        /\ last' = [Call("update", None, None, TRUE) EXCEPT
                        !.ret = defs.assignments,
                        !.equiv = are_assignments_equivalent(
                                      assignments, defs.assignments)]

RECURSIVE TouchAll(_, _)
TouchAll(a, ms) ==
    IF ms = <<>> THEN a ELSE TouchAll(Touch(a, Head(ms)), Tail(ms))

\* mutant: every machine is a candidate
empty_machines_all(a) == machines

\* autoplace, lines 171-172: the machines whose list is empty
empty_machines(a) == SelectSeq(machines, LAMBDA m : Len(Get(a, m)) = 0)

\* autoplace, lines 177-178: self.assignments[mid] = charm_classes
merge(a, unplaced_defaults) ==
    [k \in DOMAIN a \cup DOMAIN unplaced_defaults |->
        IF k \in DOMAIN unplaced_defaults THEN unplaced_defaults[k] ELSE a[k]]

autoplace_msg ==
    "Not enough empty machines could be found for the required services. Please add machines or finish placement manually."

\* mutant: success is reported whatever is left unplaced
autoplace_result_true(unplaced) == <<TRUE, "">>

\* autoplace, lines 182-187: the pair returned
autoplace_result(unplaced) ==
    IF Cardinality(unplaced) > 0 THEN <<FALSE, autoplace_msg>>
    ELSE <<TRUE, "">>

\* list(self.unplaced_services) is the set in an arbitrary order
autoplace_unplaced_services ==
    \E order \in Arrangements(unplaced_services, Cardinality(unplaced_services)) :
        /\ Len(order) = Cardinality(unplaced_services)
        /\ LET unplaced_defaults ==
                   gen_defaults(order, empty_machines(assignments)).assignments
               after ==
                   gen_defaults(order, empty_machines(assignments)).maas_machines
           IN  /\ assignments' = merge(TouchAll(assignments, machines),
                                       unplaced_defaults)
               /\ unplaced_services' = reset_unplaced(assignments')
               /\ last' = [Call("autoplace", None, None, TRUE) EXCEPT
                               !.charms = order,
                               !.supplied = empty_machines(assignments),
                               !.after = after,
                               !.ret = unplaced_defaults,
                               !.success = autoplace_result(unplaced_services')[1],
                               !.msg = autoplace_result(unplaced_services')[2]]
        /\ UNCHANGED pool

Next ==
    \/ \E machine \in Range(pool), charm_class \in Catalog :
           assign(machine, charm_class)
    \/ \E m \in Range(pool), cc \in Catalog : remove_assignment(m, cc)
    \/ clear_all_assignments
    \/ \E m \in Range(pool) : clear_assignments(m)
    \/ \E m \in Range(pool) : assignments_for_machine(m)
    \/ do_reset_to_defaults
    \/ autoplace_unplaced_services
    \/ update

Spec == Init /\ [][Next]_vars

-----------------------------------------------------------------------------
(* gen_defaults as a pure function: the arguments are drawn at the start,   *)
(* one call is made on them                                                 *)

InitGen ==
    /\ pool = <<>>
    /\ assignments = EmptyMap
    /\ unplaced_services = {}
    /\ \E cs \in Arrangements(Catalog, Cardinality(Catalog)),
          ms \in Arrangements(MachineIds, Cardinality(MachineIds)) :
           last = [NoCall EXCEPT !.op = "args", !.charms = cs,
                                 !.supplied = ms, !.after = ms]

\* defs = pc.gen_defaults(charm_classes=cs, maas_machines=ms)
call_gen_defaults ==
    /\ last.op = "args"
    /\ LET defs == gen_defaults(last.charms, last.supplied)
       IN  last' = [last EXCEPT !.op = "gen_defaults",
                                !.ret = defs.assignments,
                                !.after = defs.maas_machines]
    /\ UNCHANGED <<pool, assignments, unplaced_services>>

NextGen == call_gen_defaults

SpecGen == InitGen /\ [][NextGen]_vars

-----------------------------------------------------------------------------
(* Vocabulary of the properties *)

\* number of occurrences of cc in the whole store a
Occ(a, cc) ==
    Cardinality({p \in UNION {{k} \X (1..Len(a[k])) : k \in DOMAIN a} :
                    a[p[1]][p[2]] = cc})

\* the charms a mapping places
Placed(a) == UNION {Range(a[k]) : k \in DOMAIN a}

\* the machines on which a mapping places an isolated charm
IsolatedMachines(a) ==
    {k \in DOMAIN a : \E cc \in Range(a[k]) : isolate(cc)}

IsGenCall == last.op = "gen_defaults"

-----------------------------------------------------------------------------
(* Properties of gen_defaults, under SpecGen *)

\* C4: gen_defaults is idempotent: a second call with the same charm classes
\* and the same machine list (the list object the first call was given)
\* returns the mapping the first call returned.
C4_GenDefaultsIdempotent ==
    IsGenCall =>
        gen_defaults(last.charms, last.after).assignments = last.ret

\* C5: gen_defaults has no externally observable side effect: the machine
\* list supplied by the caller holds the same machines in the same order
\* after the call, and the store and the unplaced set are unchanged.
C5_GenDefaultsNoSideEffect ==
    IsGenCall =>
        /\ last.after = last.supplied
        /\ assignments = EmptyMap
        /\ unplaced_services = {}

-----------------------------------------------------------------------------
(* Properties of the store, under Spec *)

\* the operations that replace or edit the store
MutatingOps ==
    {"assign", "remove_assignment", "clear_all_assignments",
     "clear_assignments", "do_reset_to_defaults", "autoplace"}

C2_NonMultiAtMostOnce ==
    \A cc \in Catalog : ~allow_multi_units(cc) => Occ(assignments, cc) <= 1

\* C2 witness: autoplace has just placed a single-unit charm next to a store
\* that already held another single-unit charm.
C2_Witness ==
    /\ last.op = "autoplace"
    /\ \E c1, c2 \in Catalog :
        /\ c1 # c2
        /\ ~allow_multi_units(c1) /\ ~allow_multi_units(c2)
        /\ Occ(last.pre, c1) = 1 /\ Occ(assignments, c1) = 1
        /\ Occ(last.pre, c2) = 0 /\ Occ(assignments, c2) = 1

\* C3: after every mutating operation that completes, the unplaced set is
\* exactly the set of catalog charms with zero assignments in the store; so
\* its size is |catalog| - k when k distinct catalog charms are assigned.
C3_UnplacedIsZeroAssigned ==
    (last.op \in MutatingOps /\ last.ok) =>
        /\ unplaced_services = {cc \in Catalog : Occ(assignments, cc) = 0}
        /\ Cardinality(unplaced_services) =
               Cardinality(Catalog) - Cardinality(Placed(assignments) \cap Catalog)

\* C3 witness: two distinct charms are assigned on two machines (the case of
\* test_reset_unplaced_two) and the unplaced set is the rest of the catalog.
C3_Witness ==
    /\ last.op = "assign" /\ last.ok
    /\ Cardinality(Placed(assignments)) = 2
    /\ Cardinality({k \in DOMAIN assignments : assignments[k] # <<>>}) = 2
    /\ Cardinality(unplaced_services) = Cardinality(Catalog) - 2

\* C8: a placement shortfall raises nothing and is visible only in the
\* result: an isolated charm that no supplied machine satisfies is absent
\* from the mapping and consumes no machine (as long as the isolated charms
\* placed leave a machine, every non-isolated charm is placed); when no
\* machine is left all non-isolated charms are absent; and after autoplace a
\* core charm left out keeps can_deploy false and the call reports failure.
C8_ShortfallIsState ==
    (last.op \in {"autoplace", "do_reset_to_defaults"}) =>
        LET isolated_placed == {cc \in Placed(last.ret) : isolate(cc)}
            controller_charms == {cc \in Range(last.charms) : ~isolate(cc)}
            unsatisfiable == {cc \in Range(last.charms) :
                                 /\ isolate(cc)
                                 /\ \A m \in Range(last.supplied) :
                                        ~satisfies(m, charm_constraints(cc))}
        IN  /\ last.ok
            /\ unsatisfiable \cap Placed(last.ret) = {}
            /\ Cardinality(IsolatedMachines(last.ret)) =
                   Cardinality(isolated_placed)
            /\ IF Len(last.supplied) > Cardinality(isolated_placed)
               THEN controller_charms \subseteq Placed(last.ret)
               ELSE controller_charms \cap Placed(last.ret) = {}
            /\ (last.op = "autoplace" /\
                \E cc \in unsatisfiable : service_is_core(cc)) =>
                   (~can_deploy /\ ~last.success)

\* C8 witness: the scenario of the specification: autoplace of A (isolated,
\* arm64, core) and B (not isolated) over the single empty amd64 machine m2:
\* B is placed on m2, A stays unplaced and can_deploy is false.
C8_Witness ==
    /\ last.op = "autoplace"
    /\ Range(last.charms) = {"quantum-gateway", "keystone"}
    /\ last.supplied = <<"m2">>
    /\ last.ret = [m2 |-> <<"keystone">>]
    /\ unplaced_services = {"quantum-gateway"}
    /\ ~can_deploy

\* C9: autoplace is purely additive and uses only empty machines: a machine
\* that had an assignment before the call has the same list after it, and
\* every charm found on a machine that was empty before the call had no
\* assignment anywhere before the call.
C9_AutoplaceAdditive ==
    last.op = "autoplace" =>
        /\ \A k \in DOMAIN last.pre :
               last.pre[k] # <<>> =>
                   k \in DOMAIN assignments /\ assignments[k] = last.pre[k]
        /\ \A k \in DOMAIN assignments :
               Get(last.pre, k) = <<>> =>
                   \A cc \in Range(assignments[k]) :
                       Occ(last.pre, cc) = 0 /\ cc \in last.preUnplaced

\* C9 witness: autoplace added charms on an empty machine while another
\* machine already held assignments.
C9_Witness ==
    /\ last.op = "autoplace"
    /\ \E k1, k2 \in DOMAIN assignments :
        /\ Get(last.pre, k1) # <<>>
        /\ Get(last.pre, k2) = <<>>
        /\ assignments[k2] # <<>>

\* C10: autoplace returns (True, "") exactly when the unplaced set recomputed
\* at the end of the call is empty, and (False, the fixed message) otherwise.
C10_AutoplaceResult ==
    last.op = "autoplace" =>
        /\ last.success <=> (unplaced_services = {})
        /\ last.success => last.msg = ""
        /\ ~last.success => last.msg = autoplace_msg
        /\ last.success <=> (\A cc \in Catalog : Occ(assignments, cc) >= 1)

\* C10 witness: an autoplace that placed the charms still missing and
\* returned success.
C10_Witness ==
    /\ last.op = "autoplace"
    /\ last.success
    /\ last.ret # EmptyMap
    /\ unplaced_services = {}

-----------------------------------------------------------------------------
(* Properties of the unplaced tracker, under Spec *)

\* C11: in every reachable state can_deploy is true if and only if no charm
\* of the current unplaced set is core; an unplaced charm that is not core
\* does not block deployment, a single unplaced core charm does.
C11_CanDeployIffNoUnplacedCore ==
    /\ can_deploy <=> (\A cc \in unplaced_services : ~service_is_core(cc))
    /\ (\E cc \in unplaced_services : cc \notin uncore_services) => ~can_deploy
    /\ unplaced_services \subseteq uncore_services => can_deploy

\* C11 witness: the only unplaced charm is one that is not core, and
\* deployment is allowed (the case of test_reset_excepting_compute).
C11_Witness ==
    /\ last.op \in MutatingOps
    /\ unplaced_services = {"nova-compute"}
    /\ can_deploy

\* C12: service_is_core(nova-compute) is true as long as nova-compute has
\* never been assigned, and false right after nova-compute has been assigned.
C12_ComputeCoreUntilAssigned ==
    /\ ~last.compute_assigned => service_is_core("nova-compute")
    /\ (last.op = "assign" /\ last.cc = "nova-compute") =>
           ~service_is_core("nova-compute")

\* C13: once service_is_core(nova-compute) is false it is false in every
\* later state, also when clear_assignments, remove_assignment or
\* clear_all_assignments bring nova-compute back to zero placements.
C13_ComputeCoreLossOneWay ==
    [][~service_is_core("nova-compute") =>
           ~(service_is_core("nova-compute"))']_vars

\* C13 witness: a removal has just taken the last placement of nova-compute
\* away, and nova-compute is still not core.
C13_Witness ==
    /\ last.op \in {"clear_assignments", "remove_assignment",
                    "clear_all_assignments"}
    /\ last.ok
    /\ "nova-compute" \in Placed(last.pre)
    /\ Occ(assignments, "nova-compute") = 0
    /\ ~service_is_core("nova-compute")

\* C14: for a charm other than nova-compute service_is_core does not depend
\* on the store: it is true for a charm outside the exclusion list
\* (keystone) and false for the excluded ones (juju-gui, swift-storage,
\* swift-proxy), in every state.
C14_CoreFixedForOthers ==
    \A placed \in {Placed(assignments)} :
        /\ service_is_core("keystone")
        /\ ~service_is_core("juju-gui")
        /\ ~service_is_core("swift-storage")
        /\ ~service_is_core("swift-proxy")

-----------------------------------------------------------------------------
(* Properties of the store edits, under Spec *)

\* number of occurrences of x in the list l
CountIn(l, x) == Cardinality({i \in 1..Len(l) : l[i] = x})

\* C15: remove_assignment(m, s), called when s occurs n >= 1 times on m,
\* leaves n - 1 occurrences of s on m and changes nothing else: the other
\* charms of m keep their places, every other machine keeps its list; after
\* the removal of the last occurrence machines_for_charm(s) no longer has m.
C15_RemoveOneOccurrence ==
    (last.op = "remove_assignment" /\ last.ok) =>
        /\ last.m \in DOMAIN last.pre
        /\ CountIn(last.pre[last.m], last.cc) >= 1
        /\ DOMAIN assignments = DOMAIN last.pre
        /\ CountIn(assignments[last.m], last.cc) =
               CountIn(last.pre[last.m], last.cc) - 1
        /\ Len(assignments[last.m]) = Len(last.pre[last.m]) - 1
        /\ SelectSeq(assignments[last.m], LAMBDA c : c # last.cc) =
               SelectSeq(last.pre[last.m], LAMBDA c : c # last.cc)
        /\ \A k \in DOMAIN last.pre \ {last.m} : assignments[k] = last.pre[k]
        /\ CountIn(last.pre[last.m], last.cc) = 1 =>
               last.m \notin Range(machines_for_charm(assignments, last.cc))

\* C15 witness: the charm was on the machine twice and one occurrence is left.
C15_Witness ==
    /\ last.op = "remove_assignment" /\ last.ok
    /\ CountIn(last.pre[last.m], last.cc) = 2
    /\ assignments[last.m] = <<last.cc>>

\* C16: for a charm that allows multiple units each assign appends exactly
\* one occurrence and removes nothing, so the charm may sit several times on
\* one machine, and machines_for_charm reports a machine once per occurrence
\* (two assigns of the charm to one machine are reported as two).
C16_AssignMultiAppends ==
    (last.op = "assign" /\ allow_multi_units(last.cc)) =>
        /\ assignments[last.m] = Append(Get(last.pre, last.m), last.cc)
        /\ \A k \in DOMAIN last.pre \ {last.m} :
               k \in DOMAIN assignments /\ assignments[k] = last.pre[k]
        /\ Occ(assignments, last.cc) = Occ(last.pre, last.cc) + 1
        /\ Len(machines_for_charm(assignments, last.cc)) =
               Occ(assignments, last.cc)

\* C17: clear_assignments(m) on a machine that has an entry removes the entry
\* entirely: no charm is assigned to m, m is in machines_for_charm(s) for no
\* s, and every other machine keeps its list.
C17_ClearRemovesEntry ==
    (last.op = "clear_assignments" /\ last.ok) =>
        /\ last.m \in DOMAIN last.pre
        /\ DOMAIN assignments = DOMAIN last.pre \ {last.m}
        /\ Get(assignments, last.m) = <<>>
        /\ \A cc \in Catalog :
               last.m \notin Range(machines_for_charm(assignments, cc))
        /\ \A k \in DOMAIN last.pre \ {last.m} : assignments[k] = last.pre[k]

\* C17 witness: a multi-unit charm was on m and on another machine; after
\* clear_assignments(m) it is on the other machine only.
C17_Witness ==
    /\ last.op = "clear_assignments" /\ last.ok
    /\ \E cc \in Catalog, m2 \in DOMAIN last.pre :
        /\ m2 # last.m
        /\ allow_multi_units(cc)
        /\ cc \in Range(last.pre[last.m])
        /\ cc \in Range(last.pre[m2])
        /\ machines_for_charm(assignments, cc) = <<m2>>

-----------------------------------------------------------------------------
(* C19 *)

\* the three strata the tests index a machine's assignments by
AssignmentType == {"BareMetal", "LXC", "KVM"}

\* C19: for every machine, assigned or not, assignments_for_machine(m)
\* returns a mapping keyed by all three strata BareMetal, LXC and KVM, each
\* holding a list of services (empty where the stratum has none on m).
\* The value the code returns is the machine's list in the store.
C19_AllStrataKeys ==
    \A m \in Range(pool) :
        Get(assignments, m) \in [AssignmentType -> Seq(Catalog)]

-----------------------------------------------------------------------------
(* C20 *)

\* C20: are_assignments_equivalent(other) is true exactly when, for every
\* machine key of the store or of other, both sides hold the same set of
\* services (an empty entry and a missing entry count as the same); a
\* machine with assignments only in other is a mismatch.
C20_EquivalentSymmetric ==
    last.op = "update" =>
        (last.equiv <=>
             \A k \in DOMAIN assignments \cup DOMAIN last.ret :
                 Range(Get(assignments, k)) = Range(Get(last.ret, k)))

-----------------------------------------------------------------------------
(* Persistence: save and load.  The document maps a machine instance id to  *)
(* its constraints snapshot and its assignments; the store of this source   *)
(* has one list per machine, so the assignments of an entry are that list   *)
(* of service names.                                                        *)

\* CharmBase.name(): the charm_name of the class; a class is represented
\* here by that name
charm_name(cc) == cc

\* the class of the catalog that carries the name, None when there is none
find_charm_class(name) ==
    IF \E cc \in Catalog : charm_name(cc) = name
    THEN CHOOSE cc \in Catalog : charm_name(cc) = name
    ELSE None

\* mutant: the constraints snapshot is not written
save_document_no_snapshot(a) ==
    [mid \in DOMAIN a |->
        [constraints |-> NoConstraints,
         assignments |-> [i \in DOMAIN a[mid] |-> charm_name(a[mid][i])]]]

\* save: the document written for the store a
save_document(a) ==
    [mid \in DOMAIN a |->
        [constraints |-> machine_constraints(mid),
         assignments |-> [i \in DOMAIN a[mid] |-> charm_name(a[mid][i])]]]

\* a document is structurally valid when every entry has both parts
well_formed(doc) ==
    \A mid \in DOMAIN doc : {"constraints", "assignments"} \subseteq DOMAIN doc[mid]

\* load: the store rebuilt from a valid document; unknown names are skipped
load_assignments(doc) ==
    [mid \in DOMAIN doc |->
        LET names == doc[mid].assignments
            found == [i \in DOMAIN names |-> find_charm_class(names[i])]
        IN  SelectSeq(found, LAMBDA cc : cc # None)]

\* mutant: only the machines the live pool supplies are kept
load_machines_live(doc, live) ==
    [mid \in DOMAIN doc \cap Range(live) |-> machine_constraints(mid)]

\* load: the machine behind every id of the document, by its constraints:
\* the live machine when the pool supplies it, else a placeholder carrying
\* the snapshot
load_machines(doc, live) ==
    [mid \in DOMAIN doc |->
        IF mid \in Range(live) THEN machine_constraints(mid)
        ELSE doc[mid].constraints]

\* mutant: the valid entries of a malformed document are loaded
load_result_partial(doc, a) ==
    LET valid == {mid \in DOMAIN doc :
                      {"constraints", "assignments"} \subseteq DOMAIN doc[mid]}
    IN  [ok |-> well_formed(doc),
         assignments |-> load_assignments([mid \in valid |-> doc[mid]])]

\* load: a malformed document fails the whole load and the store stays
load_result(doc, a) ==
    IF well_formed(doc)
    THEN [ok |-> TRUE, assignments |-> load_assignments(doc)]
    ELSE [ok |-> FALSE, assignments |-> a]

\* pc.save(f)
save ==
    /\ last.op \in {"init", "assign"}
    /\ UNCHANGED <<pool, assignments, unplaced_services>>
    /\ last' = [Call("save", None, None, TRUE) EXCEPT
                    !.doc = save_document(assignments)]

\* load(f) on a controller whose store is a and whose live pool is live;
\* from here on the variables are those of the loading controller
load_document(doc, a, live) ==
    LET r == load_result(doc, a)
    IN  /\ pool' = live
        /\ IF r.ok
           THEN set_all_assignments(r.assignments)
           ELSE /\ assignments' = r.assignments
                /\ UNCHANGED unplaced_services
        /\ last' = [Call("load", None, None, r.ok) EXCEPT
                        !.doc = doc,
                        !.used = IF r.ok THEN load_machines(doc, live)
                                 ELSE EmptyMap]

\* newpc = PlacementController(...); newpc.load(f), f as saved
load_saved ==
    /\ last.op = "save"
    /\ \E live \in Arrangements(LiveIds, Cardinality(LiveIds)) :
           load_document(last.doc, EmptyMap, live)

InitPersist ==
    /\ pool \in Arrangements(LiveIds, Cardinality(LiveIds))
    /\ assignments = EmptyMap
    /\ unplaced_services = {}
    /\ last = NoCall

NextPersist ==
    \/ /\ last.op \in {"init", "assign"}
       /\ \E machine \in Range(pool), charm_class \in Catalog :
              assign(machine, charm_class)
    \/ save
    \/ load_saved

SpecPersist == InitPersist /\ [][NextPersist]_vars

-----------------------------------------------------------------------------
(* load of arbitrary documents, one after the other, by one controller *)

\* the machine ids of the documents: m3 is in no live pool
DocIds == {"m1", "m3"}

\* the service names of the documents: one of the catalog, one unknown
DocNames == {"keystone", "no-such-charm"}

DocNameLists ==
    {<<>>} \cup {<<x>> : x \in DocNames}
           \cup {<<x, y>> : x \in DocNames, y \in DocNames}

\* the entries: valid ones, whose snapshot differs from every live machine's
\* constraints, and one without its assignments part
DocEntries ==
    {[constraints |-> [cpu_cores |-> 8], assignments |-> names] :
         names \in DocNameLists}
    \cup {[constraints |-> [cpu_cores |-> 8]]}

Documents == UNION {[S -> DocEntries] : S \in SUBSET DocIds}

NextLoad ==
    \E doc \in Documents : load_document(doc, assignments, pool)

SpecLoad == InitPersist /\ [][NextLoad]_vars

-----------------------------------------------------------------------------
(* assign called with any loaded charm class, in the catalog or not *)

NextAnyCharm ==
    \/ \E machine \in Range(pool), charm_class \in loaded_charm_classes :
           assign(machine, charm_class)
    \/ clear_all_assignments

SpecAnyCharm == Init /\ [][NextAnyCharm]_vars

-----------------------------------------------------------------------------
(* The placement view after "reset to defaults": the only write is the      *)
(* reset; the view re-reads the store and re-checks it against the defaults *)

InitReset ==
    /\ pool \in Arrangements(MachineIds, Cardinality(MachineIds))
    /\ assignments = EmptyMap
    /\ unplaced_services = {}
    /\ last = NoCall

NextReset ==
    \/ do_reset_to_defaults
    \/ \E m \in Range(pool) : assignments_for_machine(m)
    \/ update

SpecReset == InitReset /\ [][NextReset]_vars

-----------------------------------------------------------------------------
(* Autoplace on a pool of up to three machines, from a fresh controller or  *)
(* after clear_all_assignments                                              *)

NextAutoplace ==
    \/ autoplace_unplaced_services
    \/ clear_all_assignments

SpecAutoplace == InitReset /\ [][NextAutoplace]_vars

-----------------------------------------------------------------------------
(* C23 *)

\* C23: remove_assignment(m, cc) when cc has no occurrence on m fails with
\* an error, and the failed call leaves the store, its set of machine keys
\* included, and the unplaced set exactly as they were before the call.
C23_FailedRemoveLeavesStore ==
    (last.op = "remove_assignment" /\ ~last.ok) =>
        /\ assignments = last.pre
        /\ DOMAIN assignments = DOMAIN last.pre
        /\ unplaced_services = last.preUnplaced

-----------------------------------------------------------------------------
(* C24 *)

\* C24: assign(m, s) with a service s that is not in the catalog fails and
\* leaves the store unchanged; so every service held anywhere in the store
\* after any sequence of assign calls is a catalog service.
C24_AssignRejectsUnknown ==
    /\ Placed(assignments) \subseteq Catalog
    /\ (last.op = "assign" /\ last.cc \notin Catalog) =>
           (~last.ok /\ assignments = last.pre)

-----------------------------------------------------------------------------
(* C26 *)

\* C26: gen_defaults with an isolated charm, a non-isolated charm and two
\* machines that both satisfy everything places the isolated charm under
\* BareMetal on the first machine (its LXC and KVM lists empty) and the
\* non-isolated charm under LXC on the second machine (its BareMetal and KVM
\* lists empty).
C26_DefaultsByStratum ==
    (/\ IsGenCall
     /\ Len(last.charms) = 2 /\ Len(last.supplied) = 2
     /\ isolate(last.charms[1]) /\ ~isolate(last.charms[2])
     /\ \A m \in Range(last.supplied), cc \in Range(last.charms) :
            satisfies(m, charm_constraints(cc)))
    => LET m1_as == Get(last.ret, last.supplied[1])
           m2_as == Get(last.ret, last.supplied[2])
       IN  /\ m1_as \in [AssignmentType -> Seq(Catalog)]
           /\ m2_as \in [AssignmentType -> Seq(Catalog)]
           /\ m1_as["BareMetal"] = <<last.charms[1]>>
           /\ m1_as["LXC"] = <<>> /\ m1_as["KVM"] = <<>>
           /\ m2_as["LXC"] = <<last.charms[2]>>
           /\ m2_as["BareMetal"] = <<>> /\ m2_as["KVM"] = <<>>

-----------------------------------------------------------------------------
(* C27 *)

\* the calls that only read the store: assignments_for_machine, and the
\* gen_defaults and are_assignments_equivalent calls of update
ReadOnlyOps == {"assignments_for_machine", "update"}

\* C27: read-only operations never change stored state: after such a call
\* the store has the same machine keys and the same lists as before, and
\* probing a machine with no assignments creates no entry for it.
C27_ReadsLeaveStore ==
    last.op \in ReadOnlyOps =>
        /\ DOMAIN assignments = DOMAIN last.pre
        /\ assignments = last.pre
        /\ unplaced_services = last.preUnplaced

-----------------------------------------------------------------------------
(* C28 *)

\* C28: after "reset to defaults" are_assignments_equivalent(gen_defaults())
\* is true, and it stays true on every later re-check while no other
\* operation mutates the store.  Under SpecReset the reset is the only
\* write, and services are in the store only once it has happened.
C28_ResetStaysEquivalent ==
    (last.op = "update" /\ Placed(assignments) # {}) => last.equiv

-----------------------------------------------------------------------------
(* C29 *)

\* the greedy pass places every catalog charm on the pool, in whatever order
\* the charms are passed
PoolPlacesAll ==
    \A cs \in Arrangements(Catalog, Cardinality(Catalog)) :
        Len(cs) = Cardinality(Catalog) =>
            Placed(gen_defaults(cs, machines).assignments) = Catalog

\* C29: autoplace computes the unplaced set from the store at the time of
\* the call, also as the very first operation on a fresh controller: with
\* an empty store and a pool on which the greedy pass can place every
\* catalog charm, the call places every catalog charm and returns success.
C29_FreshAutoplacePlacesAll ==
    (last.op = "autoplace" /\ last.pre = EmptyMap /\ PoolPlacesAll) =>
        /\ last.success
        /\ Placed(assignments) = Catalog

-----------------------------------------------------------------------------
(* C30 *)

\* C30: clear_assignments(m) on a machine with no entry in the store (never
\* assigned, or already cleared) completes without raising and leaves the
\* store and the unplaced set unchanged, so that clearing twice in a row has
\* the effect of clearing once.
C30_ClearAbsentIsNoOp ==
    (last.op = "clear_assignments" /\ last.m \notin DOMAIN last.pre) =>
        /\ last.ok
        /\ assignments = last.pre
        /\ unplaced_services = last.preUnplaced

-----------------------------------------------------------------------------
(* C21 *)

-----------------------------------------------------------------------------
(* C22 *)

-----------------------------------------------------------------------------
(* C25 *)

====
